---- MODULE Spec2Model ----
(***************************************************************************)
(* A model of the persistence layer of personal_finance                    *)
(* (src/data/database.py) and of the start-up code of src/main.py.         *)
(*                                                                         *)
(* The store is the SQLite file: five tables and their schema.  Every      *)
(* repository function opens its own connection, runs in one transaction   *)
(* and commits or rolls back before it returns, so each function is one    *)
(* action.  Text is a sequence of one-character strings, so that strip(),  *)
(* lower(), len() and indexing are computed as the code computes them.     *)
(* A Decimal is [t, m, p]: t tens of trillions and m thousandths, shown    *)
(* with p fractional digits.                                               *)
(***************************************************************************)
EXTENDS Integers, Sequences, FiniteSets, TLC

VARIABLES
    accounts,      \* rows of table accounts: [id, name, initial_balance]
    categories,    \* rows of table categories: [id, name, type]
    transactions,  \* rows of table transactions
    budgets,       \* rows of table budgets: [id, category_id, month, amount]
    settings,      \* rows of table settings: [key, value]
    schema,        \* per table: does it exist, its column type, its constraints
    temp,          \* the '<table>_migrate_temp' tables of the migration
    seq,           \* sqlite_sequence: the AUTOINCREMENT counter of each table
    last           \* the latest call: the function, the id it was given (0: none),
                   \* how it ended and what it returned

vars == <<accounts, categories, transactions, budgets, settings, schema, temp,
          seq, last>>

store == <<accounts, categories, transactions, budgets, settings, schema, temp, seq>>

\* the file as a record of its tables
File ==
    [accounts |-> accounts, categories |-> categories, transactions |-> transactions,
     budgets |-> budgets, settings |-> settings, schema |-> schema, temp |-> temp,
     seq |-> seq]

-----------------------------------------------------------------------------
(* Bounds of the model.                                                    *)

MaxAccounts == 2
MaxCategories == 2
MaxTransactions == 2
MaxBudgets == 2
MaxStarts == 2

-----------------------------------------------------------------------------
(* Text.                                                                   *)

UpperChars == <<"A","B","C","D","E","F","G","H","I","J","K","L","M",
                "N","O","P","Q","R","S","T","U","V","W","X","Y","Z">>

LowerChars == <<"a","b","c","d","e","f","g","h","i","j","k","l","m",
                "n","o","p","q","r","s","t","u","v","w","x","y","z">>

Whitespace == {" ", "\t", "\n"}

LowerChar(c) ==
    IF \E i \in 1..Len(UpperChars) : UpperChars[i] = c
    THEN LowerChars[CHOOSE i \in 1..Len(UpperChars) : UpperChars[i] = c]
    ELSE c

\* str.lower()
Lower(s) == [i \in 1..Len(s) |-> LowerChar(s[i])]

\* str.strip()
Strip(s) ==
    LET keep == {i \in 1..Len(s) : s[i] \notin Whitespace}
    IN  IF keep = {} THEN <<>>
        ELSE LET lo == CHOOSE i \in keep : \A j \in keep : i <= j
                 hi == CHOOSE i \in keep : \A j \in keep : j <= i
             IN  SubSeq(s, lo, hi)

Range(s) == {s[i] : i \in 1..Len(s)}

NoCaseEqExact(s, t) == s = t

NoCaseEqNever(s, t) == FALSE

\* equality under COLLATE NOCASE
NoCaseEq(s, t) == Lower(s) = Lower(t)

Uncategorized == <<"U","n","c","a","t","e","g","o","r","i","z","e","d">>
uncategorized == <<"u","n","c","a","t","e","g","o","r","i","z","e","d">>
Expense == <<"e","x","p","e","n","s","e">>
Income == <<"i","n","c","o","m","e">>
Theme == <<"t","h","e","m","e">>
Light == <<"l","i","g","h","t">>
Dark == <<"d","a","r","k">>

-----------------------------------------------------------------------------
(* Decimal.                                                                *)

\* A Decimal is t tens of trillions (10^13) plus m thousandths, shown with p
\* fraction digits; |m| stays far below a ten-trillion, so the pair is unique
\* and the sign of a value with t # 0 is the sign of t.
Big(t, m, p) == [t |-> t, m |-> m, p |-> p]

Dec(m, p) == Big(0, m, p)

Abs(n) == IF n < 0 THEN -n ELSE n

Sign(n) == IF n < 0 THEN -1 ELSE 1

SignOf(d) == IF d.t # 0 THEN Sign(d.t) ELSE Sign(d.m)

IsPositive(d) == d.t > 0 \/ (d.t = 0 /\ d.m > 0)

IsNegative(d) == d.t < 0 \/ (d.t = 0 /\ d.m < 0)

DecLeq(a, b) == a.t < b.t \/ (a.t = b.t /\ a.m <= b.m)

\* m to the nearest multiple of unit, halves away from zero for a value of
\* sign sign
Rounded(m, unit, sign) == sign * (((sign * m + unit \div 2) \div unit) * unit)

\* Decimal.quantize(Decimal('0.01'), rounding=ROUND_HALF_UP): halves go away
\* from zero
Quantize(d) == Big(d.t, Rounded(d.m, 10, SignOf(d)), 2)

Max(a, b) == IF a >= b THEN a ELSE b

\* Decimal + Decimal: exact, the result shows the longer fraction
DecAdd(a, b) == Big(a.t + b.t, a.m + b.m, Max(a.p, b.p))

\* abs(Decimal)
DecAbs(d) == Big(SignOf(d) * d.t, SignOf(d) * d.m, d.p)

Zero == Dec(0, 2)

\* The digits SQLite shows for a REAL holding m thousandths: the shortest
\* fraction, and at least one digit of it ('10.0', '-25.5', '12.345').
RealPlaces(m) == IF m % 100 = 0 THEN 1 ELSE IF m % 10 = 0 THEN 2 ELSE 3

\* The text of a REAL, which the DECIMAL converter parses: SQLite shows 15
\* significant digits.  Below ten trillion that is every digit of a value in
\* thousandths.  From ten trillion on (14 digits before the point) one fraction
\* digit is left; a value just under it (t = 1 and m < 0, 13 digits) keeps two.
RealText(d) ==
    LET sign == SignOf(d)
        left == IF Abs(d.t) = 1 /\ sign * d.m < 0 THEN 10 ELSE 100
        m == Rounded(d.m, left, sign)
    IN  IF d.t = 0 THEN Big(0, d.m, RealPlaces(d.m)) ELSE Big(d.t, m, RealPlaces(m))

\* adapt_decimal, and the affinity of the column the text is written to: a
\* TEXT column keeps str(d), a REAL column turns it into a number
Stored(d, type) == IF type = "REAL" THEN RealText(d) ELSE d

-----------------------------------------------------------------------------
(* Schema.                                                                 *)

MoneyTables == {"accounts", "transactions", "budgets"}

Tables == MoneyTables \cup {"categories", "settings"}

\* A table as one of initialize_db's CREATE TABLE statements makes it:
\* AUTOINCREMENT, UNIQUE, CHECK and FOREIGN KEY clauses included.
Documented(type) == [exists |-> TRUE, money |-> type, constraints |-> TRUE]

\* A table as _migrate_real_to_text rebuilds it from PRAGMA table_info: the
\* columns with their type, PRIMARY KEY, NOT NULL and DEFAULT, nothing else.
Rebuilt == [exists |-> TRUE, money |-> "TEXT", constraints |-> FALSE]

Absent == [exists |-> FALSE, money |-> "TEXT", constraints |-> FALSE]

NoTemp == [t \in MoneyTables |-> [exists |-> FALSE, rows |-> {}]]

\* the value of a NULL category_id, and of an id no row has: rowids start at 1
NoCategory == 0

MaxRowId(rows) ==
    IF rows = {} THEN 0 ELSE CHOOSE n \in {r.id : r \in rows} : \A r \in rows : r.id <= n

\* the rowid of the next INSERT: above every rowid the table ever held when it
\* is AUTOINCREMENT, above the rowids it holds otherwise
NewId(t, rows) ==
    IF schema[t].constraints THEN Max(seq[t], MaxRowId(rows)) + 1 ELSE MaxRowId(rows) + 1

\* sqlite_sequence after an INSERT of rowid id into table t
SeqAfter(t, id) ==
    IF schema[t].constraints THEN [seq EXCEPT ![t] = Max(seq[t], id)] ELSE seq

-----------------------------------------------------------------------------
(* What a call returns.                                                    *)

RetNone == [kind |-> "None", val |-> 0]

RetInt(n) == [kind |-> "int", val |-> n]

RetBoolAlwaysTrue(b) == [kind |-> "bool", val |-> 1]

\* "return deleted", "return updated", "return True", "return False"
RetBool(b) == [kind |-> "bool", val |-> IF b THEN 1 ELSE 0]

RetRaise == [kind |-> "raise", val |-> 0]

\* cause: "ok" the call did its work; "declined" a check of the code or a
\* constraint of the schema refused it; "fault" the storage failed
Reply(op, id, cause, ret) ==
    last' = [op |-> op, id |-> id, cause |-> cause, ret |-> ret]

RolledBackRaising(op, id, cause, ret) ==
    /\ Reply(op, id, cause, IF cause = "fault" THEN RetRaise ELSE ret)
    /\ UNCHANGED store

RolledBackLosingRows(op, id, cause, ret) ==
    /\ Reply(op, id, cause, ret)
    /\ transactions' = {}
    /\ UNCHANGED <<accounts, categories, budgets, settings, schema, temp, seq>>

\* get_db_connection: an sqlite3.Error rolls the transaction back and is raised
\* again, and the caller's except clause returns ret; a return before any
\* write commits nothing
RolledBack(op, id, cause, ret) ==
    /\ Reply(op, id, cause, ret)
    /\ UNCHANGED store

-----------------------------------------------------------------------------
(* Accounts.                                                               *)

add_account(name, initial_balance, fault) ==
    LET cleaned_name == Strip(name)
        balance_quantized == Quantize(initial_balance)
        id == NewId("accounts", accounts)
    IN  IF fault \/ ~schema["accounts"].exists
        THEN RolledBack("add_account", 0, "fault", RetNone)
        ELSE IF /\ schema["accounts"].constraints
                /\ \E a \in accounts : NoCaseEq(a.name, cleaned_name)
        THEN RolledBack("add_account", 0, "declined", RetNone)
        ELSE /\ id <= MaxAccounts
             /\ accounts' = accounts \cup
                    {[id |-> id, name |-> cleaned_name,
                      initial_balance |-> Stored(balance_quantized, schema["accounts"].money)]}
             /\ seq' = SeqAfter("accounts", id)
             /\ Reply("add_account", 0, "ok", RetInt(id))
             /\ UNCHANGED <<categories, transactions, budgets, settings, schema, temp>>

update_account(account_id, new_name, new_initial_balance, fault) ==
    LET cleaned_name == Strip(new_name)
        balance_quantized == Quantize(new_initial_balance)
        hit == {a \in accounts : a.id = account_id}
    IN  IF fault \/ ~schema["accounts"].exists
        THEN RolledBack("update_account", account_id, "fault", RetBool(FALSE))
        ELSE IF hit = {}
        THEN RolledBack("update_account", account_id, "declined", RetBool(FALSE))
        ELSE IF /\ schema["accounts"].constraints
                /\ \E a \in accounts \ hit : NoCaseEq(a.name, cleaned_name)
        THEN RolledBack("update_account", account_id, "declined", RetBool(FALSE))
        ELSE /\ accounts' = (accounts \ hit) \cup
                    {[id |-> account_id, name |-> cleaned_name,
                      initial_balance |-> Stored(balance_quantized, schema["accounts"].money)]}
             /\ Reply("update_account", account_id, "ok", RetBool(TRUE))
             /\ UNCHANGED <<categories, transactions, budgets, settings, schema, temp, seq>>

CascadeAccountKeepingRows(rows, account_id) == rows

\* ON DELETE CASCADE of transactions.account_id
CascadeAccount(rows, account_id) ==
    IF schema["transactions"].exists /\ schema["transactions"].constraints
    THEN {t \in rows : t.account_id # account_id}
    ELSE rows

delete_account(account_id, fault) ==
    LET hit == {a \in accounts : a.id = account_id}
    IN  IF fault \/ ~schema["accounts"].exists
        THEN RolledBack("delete_account", account_id, "fault", RetBool(FALSE))
        ELSE IF hit = {}
        THEN RolledBack("delete_account", account_id, "declined", RetBool(FALSE))
        ELSE /\ accounts' = accounts \ hit
             /\ transactions' = CascadeAccount(transactions, account_id)
             /\ Reply("delete_account", account_id, "ok", RetBool(TRUE))
             /\ UNCHANGED <<categories, budgets, settings, schema, temp, seq>>

-----------------------------------------------------------------------------
(* Categories.                                                             *)

add_category(name, type, fault) ==
    LET cleaned_name == Strip(name)
        id == NewId("categories", categories)
    IN  IF fault \/ ~schema["categories"].exists
        THEN RolledBack("add_category", 0, "fault", RetNone)
        ELSE IF \/ \E c \in categories : NoCaseEq(c.name, cleaned_name)
                \/ type \notin {Expense, Income}
        THEN RolledBack("add_category", 0, "declined", RetNone)
        ELSE /\ id <= 1 + MaxCategories
             /\ categories' = categories \cup
                    {[id |-> id, name |-> cleaned_name, type |-> type]}
             /\ seq' = SeqAfter("categories", id)
             /\ Reply("add_category", 0, "ok", RetInt(id))
             /\ UNCHANGED <<accounts, transactions, budgets, settings, schema, temp>>

IsDefaultExactCase(name) == name = uncategorized

\* name.lower() == 'uncategorized'
IsDefault(name) == Lower(name) = uncategorized

update_category(category_id, new_name, new_type, fault) ==
    LET cleaned_name == Strip(new_name)
        cleaned_type == Lower(Strip(new_type))
        original_cat == {c \in categories : c.id = category_id}
    IN  IF \/ cleaned_name = <<>>
           \/ IsDefault(cleaned_name)
           \/ cleaned_type \notin {Expense, Income}
        THEN RolledBack("update_category", category_id, "declined", RetBool(FALSE))
        ELSE IF fault \/ ~schema["categories"].exists
        THEN RolledBack("update_category", category_id, "fault", RetBool(FALSE))
        ELSE IF \/ original_cat = {}
                \/ \E c \in original_cat : IsDefault(c.name)
                \/ \E c \in categories \ original_cat : NoCaseEq(c.name, cleaned_name)
        THEN RolledBack("update_category", category_id, "declined", RetBool(FALSE))
        ELSE /\ categories' = (categories \ original_cat) \cup
                    {[id |-> category_id, name |-> cleaned_name, type |-> cleaned_type]}
             /\ Reply("update_category", category_id, "ok", RetBool(TRUE))
             /\ UNCHANGED <<accounts, transactions, budgets, settings, schema, temp, seq>>

SetNullCategoryAsCascade(rows, category_id) ==
    {t \in rows : t.category_id # category_id}

\* ON DELETE SET NULL of transactions.category_id
SetNullCategory(rows, category_id) ==
    IF schema["transactions"].exists /\ schema["transactions"].constraints
    THEN {IF t.category_id = category_id THEN [t EXCEPT !.category_id = NoCategory] ELSE t
            : t \in rows}
    ELSE rows

\* ON DELETE CASCADE of budgets.category_id
CascadeCategory(rows, category_id) ==
    IF schema["budgets"].exists /\ schema["budgets"].constraints
    THEN {b \in rows : b.category_id # category_id}
    ELSE rows

delete_category(category_id, fault) ==
    LET cat == {c \in categories : c.id = category_id}
    IN  IF fault \/ ~schema["categories"].exists
        THEN RolledBack("delete_category", category_id, "fault", RetBool(FALSE))
        ELSE IF \/ cat = {}
                \/ \E c \in cat : IsDefault(c.name)
        THEN RolledBack("delete_category", category_id, "declined", RetBool(FALSE))
        ELSE /\ categories' = categories \ cat
             /\ transactions' = SetNullCategory(transactions, category_id)
             /\ budgets' = CascadeCategory(budgets, category_id)
             /\ Reply("delete_category", category_id, "ok", RetBool(TRUE))
             /\ UNCHANGED <<accounts, settings, schema, temp, seq>>

-----------------------------------------------------------------------------
(* Budgets.                                                                *)

\* max(Decimal('0.00'), amount).quantize(...)
BudgetAmount(amount) == Quantize(IF IsPositive(amount) THEN amount ELSE Zero)

MonthShapeLengthOnly(month_str) == Len(month_str) = 7

\* len(month_str) == 7 and month_str[4] == '-'
MonthShape(month_str) == Len(month_str) = 7 /\ month_str[5] = "-"

UpsertAsInsert(rows, id, category_id, month_str, budget_amount) ==
    rows \cup {[id |-> id, category_id |-> category_id, month |-> month_str,
              amount |-> budget_amount]}

\* INSERT ... ON CONFLICT(category_id, month) DO UPDATE SET amount = excluded.amount
Upsert(rows, id, category_id, month_str, budget_amount) ==
    LET hit == {b \in rows : b.category_id = category_id /\ b.month = month_str}
    IN  IF hit = {}
        THEN rows \cup {[id |-> id, category_id |-> category_id, month |-> month_str,
                         amount |-> budget_amount]}
        ELSE {IF b \in hit THEN [b EXCEPT !.amount = budget_amount] ELSE b : b \in rows}

set_budget(category_id, month_str, amount, fault) ==
    LET budget_amount == BudgetAmount(amount)
        cat_result == {c \in categories : c.id = category_id}
        id == NewId("budgets", budgets)
    IN  IF fault \/ ~schema["categories"].exists
        THEN RolledBack("set_budget", category_id, "fault", RetBool(FALSE))
        ELSE IF \/ cat_result = {}
                \/ \E c \in cat_result : c.type # Expense
                \/ ~MonthShape(month_str)
        THEN RolledBack("set_budget", category_id, "declined", RetBool(FALSE))
        \* without the UNIQUE constraint the ON CONFLICT clause is an error
        ELSE IF ~schema["budgets"].exists \/ ~schema["budgets"].constraints
        THEN RolledBack("set_budget", category_id, "fault", RetBool(FALSE))
        \* the statement takes a rowid from sqlite_sequence even when it updates
        ELSE /\ id <= MaxBudgets
             /\ budgets' = Upsert(budgets, id, category_id, month_str,
                                  Stored(budget_amount, schema["budgets"].money))
             /\ seq' = SeqAfter("budgets", id)
             /\ Reply("set_budget", category_id, "ok", RetBool(TRUE))
             /\ UNCHANGED <<accounts, categories, transactions, settings, schema, temp>>

-----------------------------------------------------------------------------
(* Transactions.                                                           *)

CheckedCategoryAsGiven(category_id) == category_id

\* "SELECT 1 FROM categories WHERE id = ?": a category id no row has is
\* replaced by None
CheckedCategory(category_id) ==
    IF category_id # NoCategory /\ ~\E c \in categories : c.id = category_id
    THEN NoCategory
    ELSE category_id

AccountKeyUnchecked(account_id) == TRUE

\* FOREIGN KEY (account_id) REFERENCES accounts (id)
AccountKeyHolds(account_id) ==
    ~schema["transactions"].constraints \/ \E a \in accounts : a.id = account_id

add_transaction(account_id, date_str, description, amount, category_id, fault) ==
    LET cleaned_desc == Strip(description)
        amount_quantized == Quantize(amount)
        id == NewId("transactions", transactions)
    IN  IF \/ fault
           \/ ~schema["transactions"].exists
           \/ category_id # NoCategory /\ ~schema["categories"].exists
           \/ schema["transactions"].constraints /\ ~schema["accounts"].exists
        THEN RolledBack("add_transaction", account_id, "fault", RetNone)
        ELSE IF ~AccountKeyHolds(account_id)
        THEN RolledBack("add_transaction", account_id, "declined", RetNone)
        ELSE /\ id <= MaxTransactions
             /\ transactions' = transactions \cup
                    {[id |-> id, account_id |-> account_id, date |-> date_str,
                      description |-> cleaned_desc,
                      amount |-> Stored(amount_quantized, schema["transactions"].money),
                      category_id |-> CheckedCategory(category_id)]}
             /\ seq' = SeqAfter("transactions", id)
             /\ Reply("add_transaction", account_id, "ok", RetInt(id))
             /\ UNCHANGED <<accounts, categories, budgets, settings, schema, temp>>

update_transaction(transaction_id, account_id, date_str, description, amount, category_id, fault) ==
    LET cleaned_desc == Strip(description)
        amount_quantized == Quantize(amount)
        hit == {t \in transactions : t.id = transaction_id}
    IN  IF \/ fault
           \/ ~schema["transactions"].exists
           \/ category_id # NoCategory /\ ~schema["categories"].exists
           \/ hit # {} /\ schema["transactions"].constraints /\ ~schema["accounts"].exists
        THEN RolledBack("update_transaction", transaction_id, "fault", RetBool(FALSE))
        ELSE IF hit = {} \/ ~AccountKeyHolds(account_id)
        THEN RolledBack("update_transaction", transaction_id, "declined", RetBool(FALSE))
        ELSE /\ transactions' = (transactions \ hit) \cup
                    {[id |-> transaction_id, account_id |-> account_id, date |-> date_str,
                      description |-> cleaned_desc,
                      amount |-> Stored(amount_quantized, schema["transactions"].money),
                      category_id |-> CheckedCategory(category_id)]}
             /\ Reply("update_transaction", transaction_id, "ok", RetBool(TRUE))
             /\ UNCHANGED <<accounts, categories, budgets, settings, schema, temp, seq>>

delete_transaction(transaction_id, fault) ==
    LET hit == {t \in transactions : t.id = transaction_id}
    IN  IF fault \/ ~schema["transactions"].exists
        THEN RolledBack("delete_transaction", transaction_id, "fault", RetBool(FALSE))
        ELSE IF hit = {}
        THEN RolledBack("delete_transaction", transaction_id, "declined", RetBool(FALSE))
        ELSE /\ transactions' = transactions \ hit
             /\ Reply("delete_transaction", transaction_id, "ok", RetBool(TRUE))
             /\ UNCHANGED <<accounts, categories, budgets, settings, schema, temp, seq>>

-----------------------------------------------------------------------------
(* Settings.                                                               *)

set_setting_inserting(key, value, fault) ==
    IF fault \/ ~schema["settings"].exists
    THEN RolledBack("set_setting", 0, "fault", RetBool(FALSE))
    ELSE /\ settings' = settings \cup {[key |-> key, value |-> value]}
         /\ Reply("set_setting", 0, "ok", RetBool(TRUE))
         /\ UNCHANGED <<accounts, categories, transactions, budgets, schema, temp, seq>>

\* INSERT OR REPLACE INTO settings (key, value)
set_setting(key, value, fault) ==
    IF fault \/ ~schema["settings"].exists
    THEN RolledBack("set_setting", 0, "fault", RetBool(FALSE))
    ELSE /\ settings' = {r \in settings : r.key # key} \cup {[key |-> key, value |-> value]}
         /\ Reply("set_setting", 0, "ok", RetBool(TRUE))
         /\ UNCHANGED <<accounts, categories, transactions, budgets, schema, temp, seq>>

-----------------------------------------------------------------------------
(* SQL expressions of the queries.                                         *)

\* the characters of the model in the order of their codes, which is the order
\* of the BINARY collation
Ascii == <<"\t", "\n", " ", "%", "-", "/", "0", "1", "2", "3", "4", "5", "6", "7", "8", "9">>
         \o UpperChars \o <<"_">> \o LowerChars

Code(c) == CHOOSE i \in 1..Len(Ascii) : Ascii[i] = c

RECURSIVE TextLeq(_, _)
\* s <= t for two TEXT values
TextLeq(s, t) ==
    IF s = <<>> THEN TRUE
    ELSE IF t = <<>> THEN FALSE
    ELSE IF Head(s) = Head(t) THEN TextLeq(Tail(s), Tail(t))
    ELSE Code(Head(s)) < Code(Head(t))

\* x BETWEEN lo AND hi
Between(x, lo, hi) == TextLeq(lo, x) /\ TextLeq(x, hi)

RECURSIVE Like(_, _)
\* s LIKE pat: '%' is any text, '_' any character, letters match in either case
Like(s, pat) ==
    IF pat = <<>> THEN s = <<>>
    ELSE IF Head(pat) = "%"
    THEN \E k \in 0..Len(s) : Like(SubSeq(s, k + 1, Len(s)), Tail(pat))
    ELSE /\ s # <<>>
         /\ Head(pat) = "_" \/ LowerChar(Head(pat)) = LowerChar(Head(s))
         /\ Like(Tail(s), Tail(pat))

\* f"{month_str}-%"
DatePattern(month_str) == month_str \o <<"-", "%">>

\* the exact sum of the amounts of rows
RECURSIVE SumOf(_)
SumOf(rows) ==
    IF rows = {} THEN Zero
    ELSE LET r == CHOOSE x \in rows : TRUE IN DecAdd(r.amount, SumOf(rows \ {r}))

\* SUM(amount) read through the DECIMAL converter: NULL over no rows; otherwise
\* the sum is a REAL, and the converter parses the text SQLite shows for it
SqlSum(rows) ==
    IF rows = {} THEN [null |-> TRUE, value |-> Zero]
    ELSE [null |-> FALSE, value |-> RealText(SumOf(rows))]

-----------------------------------------------------------------------------
(* Balances.                                                               *)

RetDecimal(d) == [kind |-> "Decimal", val |-> d]

\* the value get_account_current_balance returns on the file s
BalanceIn(s, account_id, fault) ==
    LET result_initial == {a \in s.accounts : a.id = account_id}
        transaction_sum == SqlSum({t \in s.transactions : t.account_id = account_id})
    IN  IF fault \/ ~s.schema["accounts"].exists THEN Zero
        ELSE IF result_initial = {} THEN Zero
        ELSE IF ~s.schema["transactions"].exists THEN Zero
        ELSE LET initial_balance == (CHOOSE a \in result_initial : TRUE).initial_balance
             IN  Quantize(IF transaction_sum.null THEN initial_balance
                          ELSE DecAdd(initial_balance, transaction_sum.value))

CurrentBalance(account_id, fault) == BalanceIn(File, account_id, fault)

get_account_current_balance(account_id, fault) ==
    /\ Reply("get_account_current_balance", account_id,
             IF fault THEN "fault" ELSE "ok", RetDecimal(CurrentBalance(account_id, fault)))
    /\ UNCHANGED store

\* get_accounts: the rows, or [] on an sqlite3.Error
GetAccounts(fault) == IF fault \/ ~schema["accounts"].exists THEN {} ELSE accounts

\* the list get_all_accounts_with_balances returns, as the balance of each id;
\* faulty holds the ids whose balance query fails
AccountsWithBalances(fault, faulty) ==
    [id \in {a.id : a \in GetAccounts(fault)} |-> CurrentBalance(id, id \in faulty)]

get_all_accounts_with_balances(fault, faulty) ==
    /\ Reply("get_all_accounts_with_balances", 0,
             IF fault \/ faulty # {} THEN "fault" ELSE "ok",
             [kind |-> "list", val |-> AccountsWithBalances(fault, faulty)])
    /\ UNCHANGED store

RECURSIVE SumBalances(_, _)
SumBalances(balances, ids) ==
    IF ids = {} THEN Zero
    ELSE LET id == CHOOSE x \in ids : TRUE
         IN  DecAdd(balances[id], SumBalances(balances, ids \ {id}))

\* get_total_net_balance: sum() over no account is the int 0, which has no
\* quantize method
TotalNetBalance(fault, faulty) ==
    LET balances == AccountsWithBalances(fault, faulty)
    IN  IF DOMAIN balances = {} THEN RetRaise
        ELSE RetDecimal(Quantize(SumBalances(balances, DOMAIN balances)))

get_total_net_balance(fault, faulty) ==
    /\ Reply("get_total_net_balance", 0,
             IF fault \/ faulty # {} THEN "fault" ELSE "ok", TotalNetBalance(fault, faulty))
    /\ UNCHANGED store

-----------------------------------------------------------------------------
(* Spending and reports.                                                   *)

\* CAST(amount AS REAL) < 0
Negative(t) == IsNegative(t.amount)

\* CAST(amount AS REAL) > 0
Positive(t) == IsPositive(t.amount)

\* abs() and quantize() of a SUM that is not NULL, Decimal('0.00') otherwise
QuantizedAbs(total) == IF total.null THEN Zero ELSE Quantize(DecAbs(total.value))

\* the value get_spending_for_category_month returns; "category_id = ?" holds
\* for no row when either side is NULL
SpendingForCategoryMonth(category_id, month_str, fault) ==
    LET rows == {t \in transactions :
                    /\ category_id # NoCategory
                    /\ t.category_id = category_id
                    /\ Like(t.date, DatePattern(month_str))
                    /\ Negative(t)}
    IN  IF fault \/ ~schema["transactions"].exists THEN Zero
        ELSE QuantizedAbs(SqlSum(rows))

get_spending_for_category_month(category_id, month_str, fault) ==
    /\ Reply("get_spending_for_category_month", category_id,
             IF fault THEN "fault" ELSE "ok",
             RetDecimal(SpendingForCategoryMonth(category_id, month_str, fault)))
    /\ UNCHANGED store

\* the dict get_income_expense_summary_for_month returns
IncomeExpenseSummary(month_str, fault) ==
    LET rows == {t \in transactions : Like(t.date, DatePattern(month_str))}
        result_income == SqlSum({t \in rows : Positive(t)})
        result_expense == SqlSum({t \in rows : Negative(t)})
    IN  IF fault \/ ~schema["transactions"].exists
        THEN [total_income |-> Zero, total_expense |-> Zero]
        ELSE [total_income |->
                 Quantize(IF result_income.null THEN Zero ELSE result_income.value),
              total_expense |-> QuantizedAbs(result_expense)]

get_income_expense_summary_for_month(month_str, fault) ==
    /\ Reply("get_income_expense_summary_for_month", 0,
             IF fault THEN "fault" ELSE "ok",
             [kind |-> "dict", val |-> IncomeExpenseSummary(month_str, fault)])
    /\ UNCHANGED store

\* IFNULL(c.name, 'Uncategorized') of transactions t LEFT JOIN categories c
CategoryName(t) ==
    IF \E c \in categories : c.id = t.category_id
    THEN (CHOOSE c \in categories : c.id = t.category_id).name
    ELSE Uncategorized

\* HAVING SUM(t.amount) < '0': a number is below every text, whatever it is
Having(total) == TRUE

\* the rows of get_spending_by_category's query that the loop keeps, unordered
SpendingGroups(start_date, end_date) ==
    LET rows == {t \in transactions : Negative(t) /\ Between(t.date, start_date, end_date)}
        Group(n) == {t \in rows : CategoryName(t) = n}
        all == {[category_name |-> n, spent_amount |-> QuantizedAbs(SqlSum(Group(n)))]
                  : n \in {m \in {CategoryName(t) : t \in rows} : Having(SqlSum(Group(m)))}}
    IN  {g \in all : IsPositive(g.spent_amount)}

\* ORDER BY ABS(SUM(t.amount)) DESC: every order of the groups that puts no
\* smaller amount first
Ordered(groups) ==
    {list \in [1..Cardinality(groups) -> groups] :
        /\ \A i, j \in DOMAIN list : i # j => list[i] # list[j]
        /\ \A i, j \in DOMAIN list : i < j => DecLeq(list[j].spent_amount, list[i].spent_amount)}

get_spending_by_category(start_date, end_date, fault) ==
    /\ \E list \in IF fault \/ ~schema["transactions"].exists \/ ~schema["categories"].exists
                   THEN {<<>>}
                   ELSE Ordered(SpendingGroups(start_date, end_date)) :
            Reply("get_spending_by_category", 0,
                  IF fault THEN "fault" ELSE "ok", [kind |-> "list", val |-> list])
    /\ UNCHANGED store

\* get_setting: the value of the key, the default without a row or on an error
GetSetting(key, default, fault) ==
    IF fault \/ ~schema["settings"].exists \/ ~\E r \in settings : r.key = key
    THEN default
    ELSE (CHOOSE r \in settings : r.key = key).value

get_setting(key, default, fault) ==
    /\ Reply("get_setting", 0, IF fault THEN "fault" ELSE "ok",
             [kind |-> "str", val |-> GetSetting(key, default, fault)])
    /\ UNCHANGED store

-----------------------------------------------------------------------------
(* initialize_db and the migration, as functions of the file s they run on: *)
(* a record with the fields of store.                                       *)

\* a database file without tables
EmptyFile ==
    [accounts |-> {}, categories |-> {}, transactions |-> {}, budgets |-> {},
     settings |-> {}, schema |-> [t \in Tables |-> Absent], temp |-> NoTemp,
     seq |-> [t \in Tables |-> 0]]

Rows(s, t) ==
    CASE t = "accounts" -> s.accounts
      [] t = "categories" -> s.categories
      [] t = "transactions" -> s.transactions
      [] t = "budgets" -> s.budgets
      [] t = "settings" -> s.settings

WithRows(s, t, rows) ==
    CASE t = "accounts" -> [s EXCEPT !.accounts = rows]
      [] t = "categories" -> [s EXCEPT !.categories = rows]
      [] t = "transactions" -> [s EXCEPT !.transactions = rows]
      [] t = "budgets" -> [s EXCEPT !.budgets = rows]
      [] t = "settings" -> [s EXCEPT !.settings = rows]

\* CREATE TABLE IF NOT EXISTS t
CreateIfNotExists(s, t) ==
    IF s.schema[t].exists THEN s ELSE [s EXCEPT !.schema[t] = Documented("TEXT")]

\* INSERT OR IGNORE INTO categories (name, type) VALUES ('Uncategorized',
\* 'expense'): the statement takes a rowid from sqlite_sequence even when the
\* row is ignored
SeedCategory(s) ==
    LET id == Max(s.seq["categories"], MaxRowId(s.categories)) + 1
        t == [s EXCEPT !.seq["categories"] = id]
    IN  IF \E c \in s.categories : NoCaseEq(c.name, Uncategorized)
        THEN t
        ELSE [t EXCEPT !.categories =
                 @ \cup {[id |-> id, name |-> Uncategorized, type |-> Expense]}]

SeedThemeReplacing(s) ==
    [s EXCEPT !.settings = {r \in @ : r.key # Theme} \cup {[key |-> Theme, value |-> Light]}]

\* INSERT OR IGNORE INTO settings (key, value) VALUES ('theme', 'light')
SeedTheme(s) ==
    IF \E r \in s.settings : r.key = Theme
    THEN s
    ELSE [s EXCEPT !.settings = @ \cup {[key |-> Theme, value |-> Light]}]

\* the statements of one table's migration, in the order they run
MigrationSteps == <<"probe", "droptemp", "temp", "copy", "drop", "rename", "index">>

StepNo(step) == CHOOSE i \in 1..Len(MigrationSteps) : MigrationSteps[i] = step

\* DROP TABLE t with foreign keys on: the rows are deleted first, which
\* cascades from accounts to the transactions that hold the foreign key; the
\* table's row of sqlite_sequence goes with it
DropTable(s, t) ==
    LET cascaded ==
            IF /\ t = "accounts"
               /\ s.schema["transactions"].exists
               /\ s.schema["transactions"].constraints
            THEN [s EXCEPT !.transactions =
                     {x \in @ : ~\E a \in s.accounts : a.id = x.account_id}]
            ELSE s
    IN  [WithRows(cascaded, t, {}) EXCEPT !.schema[t] = Absent, !.seq[t] = 0]

\* _migrate_real_to_text for table t, stopped by an sqlite3.Error at statement
\* failed (0: none fails).  The error is caught by the except clause of the
\* loop over the tables, which logs it and goes on to the next table.
MigrateTable(s, t, failed) ==
    LET Done(step) == failed = 0 \/ StepNo(step) < failed
        s1 == IF Done("temp")
              THEN [s EXCEPT !.temp[t] = [exists |-> TRUE, rows |-> {}]]
              ELSE IF Done("droptemp")
              THEN [s EXCEPT !.temp[t] = [exists |-> FALSE, rows |-> {}]]
              ELSE s
        s2 == IF Done("copy") THEN [s1 EXCEPT !.temp[t].rows = Rows(s, t)] ELSE s1
        s3 == IF Done("drop") THEN DropTable(s2, t) ELSE s2
        s4 == IF Done("rename")
              THEN [WithRows(s3, t, s3.temp[t].rows) EXCEPT
                       !.schema[t] = Rebuilt,
                       !.temp[t] = [exists |-> FALSE, rows |-> {}]]
              ELSE s3
    IN  IF ~s.schema[t].exists \/ s.schema[t].money # "REAL" \/ ~Done("probe")
        THEN s
        ELSE s4

\* tables_to_check, in the order of the loop
TablesToCheck == <<"accounts", "transactions", "budgets">>

\* _migrate_real_to_text: fault.table's migration fails at fault.step
MigrateRealToText(s, fault) ==
    LET Failed(t) == IF fault.table = t /\ fault.step \in Range(MigrationSteps)
                     THEN StepNo(fault.step) ELSE 0
        a == MigrateTable(s, TablesToCheck[1], Failed(TablesToCheck[1]))
        b == MigrateTable(a, TablesToCheck[2], Failed(TablesToCheck[2]))
    IN  MigrateTable(b, TablesToCheck[3], Failed(TablesToCheck[3]))

NoFault == [table |-> "", step |-> "none"]

\* The file after initialize_db and whether it raised.  The two CREATE TABLE
\* statements before the first INSERT run outside a transaction and stay; the
\* first INSERT opens the transaction that commit() or rollback() ends.
InitializeDb(s, fault) ==
    LET s1 == CreateIfNotExists(s, "accounts")
        s2 == CreateIfNotExists(s1, "categories")
        s3 == SeedCategory(s2)
        s4 == CreateIfNotExists(CreateIfNotExists(CreateIfNotExists(s3,
                  "transactions"), "budgets"), "settings")
        s5 == SeedTheme(s4)
        s6 == MigrateRealToText(s5, fault)
    IN  IF fault.step = "create" /\ fault.table = "accounts"
        THEN [file |-> s, raised |-> TRUE]
        ELSE IF fault.step = "create" /\ fault.table = "categories"
        THEN [file |-> s1, raised |-> TRUE]
        ELSE IF fault.step \in {"create", "seed", "commit"}
        THEN [file |-> s2, raised |-> TRUE]
        ELSE [file |-> s6, raised |-> FALSE]

IsFile(s) ==
    /\ accounts = s.accounts
    /\ categories = s.categories
    /\ transactions = s.transactions
    /\ budgets = s.budgets
    /\ settings = s.settings
    /\ schema = s.schema
    /\ temp = s.temp
    /\ seq = s.seq

\* the statement fault names is one this run of initialize_db executes: the
\* statements that rebuild a table run only for a table with a REAL column
Executes(s, fault) ==
    fault.step \in Range(MigrationSteps) \ {"probe"} => s.schema[fault.table] = Documented("REAL")

initialize_db(fault) ==
    LET done == InitializeDb(File, fault)
    IN  /\ Executes(File, fault)
        /\ done.file.seq["categories"] <= 1 + MaxCategories + MaxStarts
        /\ accounts' = done.file.accounts
        /\ categories' = done.file.categories
        /\ transactions' = done.file.transactions
        /\ budgets' = done.file.budgets
        /\ settings' = done.file.settings
        /\ schema' = done.file.schema
        /\ temp' = done.file.temp
        /\ seq' = done.file.seq
        /\ Reply("initialize_db", 0,
                 IF fault = NoFault THEN "ok" ELSE "fault",
                 IF done.raised THEN RetRaise ELSE RetNone)

\* the faults initialize_db can meet
InitFaults ==
    {NoFault, [table |-> "", step |-> "commit"]}
    \cup {[table |-> t, step |-> "create"] : t \in Tables}
    \cup {[table |-> t, step |-> "seed"] : t \in {"categories", "settings"}}
    \cup {[table |-> t, step |-> x] : t \in MoneyTables, x \in Range(MigrationSteps) \ {"index"}}
    \cup {[table |-> t, step |-> "index"] : t \in {"transactions", "budgets"}}

-----------------------------------------------------------------------------
(* The arguments the calls are tried with.                                 *)

AccountNames == {<<"A">>, <<" ", "a">>, <<"B">>}

TwoNames == {<<"A">>, <<"B">>}

OneName == {<<"A">>}

\* 2.005
Balances == {Dec(2005, 3)}

\* 0.01 and 10000000000000.00
Amounts == {Dec(10, 2), Big(1, 0, 2)}

\* -1.005 and 3.00
SmallAmounts == {Dec(-1005, 3), Dec(3000, 2)}

Dates == {<<"2","0","2","4","-","0","1","-","0","5">>}

Descriptions == {<<"x", " ">>}

CategoryNames == {<<"F">>, <<"f", " ">>, <<"U","N","C","A","T","E","G","O","R","I","Z","E","D">>}

Types == {Expense, Income, <<"x">>}

Months == {<<"2","0","2","4","-","0","1">>, <<"2","0","2","4","-","0","2">>,
           <<"2","0","2","4","/","0","1">>}

\* 5.00, -3.00 and 2.345
BudgetAmounts == {Dec(5000, 2), Dec(-3000, 2), Dec(2345, 3)}

SettingValues == {Light, Dark}

\* ids: 0 stands for None and for an id no row has
AccountIds == 0..MaxAccounts

CategoryIds == 0..(1 + MaxCategories)

TransactionIds == 0..MaxTransactions

-----------------------------------------------------------------------------
(* The store a first start creates, and the repository on it.              *)

Started == [op |-> "initialize_db", id |-> 0, cause |-> "ok", ret |-> RetNone]

Init ==
    /\ IsFile(InitializeDb(EmptyFile, NoFault).file)
    /\ last = Started

-----------------------------------------------------------------------------------------------------------------------------------------------------
(* The calls, with the arguments drawn from the sets given.                *)

AddAccount(names, balances) ==
    \E name \in names, initial_balance \in balances :
        add_account(name, initial_balance, FALSE)

UpdateAccount(names, balances) ==
    \E account_id \in AccountIds, new_name \in names, new_initial_balance \in balances :
        update_account(account_id, new_name, new_initial_balance, FALSE)

DeleteAccount == \E account_id \in AccountIds : delete_account(account_id, FALSE)

AddTransaction(amounts, category_ids) ==
    \E account_id \in AccountIds, date_str \in Dates, description \in Descriptions,
       amount \in amounts, category_id \in category_ids :
        add_transaction(account_id, date_str, description, amount, category_id, FALSE)

UpdateTransaction(amounts, category_ids) ==
    \E transaction_id \in TransactionIds, account_id \in AccountIds, date_str \in Dates,
       description \in Descriptions, amount \in amounts, category_id \in category_ids :
        update_transaction(transaction_id, account_id, date_str, description, amount,
                           category_id, FALSE)

DeleteTransaction ==
    \E transaction_id \in TransactionIds : delete_transaction(transaction_id, FALSE)

AddCategory(names, types) ==
    \E name \in names, type \in types : add_category(name, type, FALSE)

UpdateCategory(names, types) ==
    \E category_id \in CategoryIds, new_name \in names, new_type \in types :
        update_category(category_id, new_name, new_type, FALSE)

DeleteCategory == \E category_id \in CategoryIds : delete_category(category_id, FALSE)

SetBudget(months, amounts) ==
    \E category_id \in CategoryIds, month_str \in months, amount \in amounts :
        set_budget(category_id, month_str, amount, FALSE)

-----------------------------------------------------------------------------
(* Categories and budgets.                                                 *)

\* 'f ' and 'UNCATEGORIZED'
TwoCategoryNames == {<<"f", " ">>, <<"U","N","C","A","T","E","G","O","R","I","Z","E","D">>}

TwoMonths == {<<"2","0","2","4","-","0","1">>, <<"2","0","2","4","-","0","2">>}

\* -3.00 and 2.345
TwoBudgets == {Dec(-3000, 2), Dec(2345, 3)}

NextCategories ==
    \/ AddCategory(TwoCategoryNames, Types)
    \/ UpdateCategory(TwoCategoryNames, Types)
    \/ DeleteCategory
    \/ SetBudget(TwoMonths, TwoBudgets)

SpecCategories == Init /\ [][NextCategories]_vars

\* the categories of a store that initialize_db has just created
Seeded == InitializeDb(EmptyFile, NoFault).file.categories

\* C2: under any calls of add_category, update_category and delete_category the
\* seeded row of 'Uncategorized' stays as it was created (same id, same name,
\* type 'expense') and no other category has that name in any letter case.
C2_UncategorizedKept ==
    /\ Seeded \subseteq categories
    /\ \A c \in categories : Lower(c.name) = uncategorized => c \in Seeded

\* C2: a call that names the seeded row has just been declined, next to a
\* category that was added
C2_DeclinedOnUncategorized ==
    /\ last.op \in {"update_category", "delete_category"}
    /\ last.cause = "declined"
    /\ \E c \in Seeded : c.id = last.id
    /\ categories # Seeded

\* C3: every budget row references an existing category of type 'expense'.
C3_BudgetsOnExpenseCategories ==
    \A b \in budgets : \E c \in categories : c.id = b.category_id /\ c.type = Expense

OnePerPair(rows) ==
    \A b1, b2 \in rows : (b1.category_id = b2.category_id /\ b1.month = b2.month) => b1 = b2

\* budgets set for two months, with categories added and deleted
NextUpserts ==
    \/ AddCategory({<<"F">>}, {Expense})
    \/ DeleteCategory
    \/ SetBudget(TwoMonths, TwoBudgets)

SpecUpserts == Init /\ [][NextUpserts]_vars

\* C4: budgets never holds two rows of one (category_id, month); a successful
\* set_budget(c, m, a) leaves the row of (c, m) with the amount it stores for a
\* (a clamped at zero, to 2 decimals), and adds no row when the pair had one.
C4_LaterBudgetWins ==
    [][/\ OnePerPair(budgets')
       /\ (last'.op = "set_budget" /\ last'.cause = "ok") =>
            \A c \in CategoryIds, m \in TwoMonths, a \in TwoBudgets :
                set_budget(c, m, a, FALSE) =>
                    /\ \E b \in budgets' :
                           b.category_id = c /\ b.month = m /\ b.amount = BudgetAmount(a)
                    /\ (\E b \in budgets : b.category_id = c /\ b.month = m) =>
                           Cardinality(budgets') = Cardinality(budgets)]_vars

\* C4: the latest set_budget succeeded and the only row is older than the call:
\* the call replaced its amount
C4_Replaced ==
    /\ last.op = "set_budget"
    /\ last.cause = "ok"
    /\ Cardinality(budgets) = 1
    /\ \A b \in budgets : b.id < seq["budgets"] /\ b.category_id = last.id

-----------------------------------------------------------------------------
(* The ledger: accounts, their transactions, and the categories they name. *)

NextLedger ==
    \/ AddAccount(TwoNames, Balances)
    \/ UpdateAccount(TwoNames, Balances)
    \/ DeleteAccount
    \/ AddTransaction(Amounts, CategoryIds)
    \/ UpdateTransaction(Amounts, CategoryIds)
    \/ DeleteTransaction
    \/ AddCategory({<<"F">>}, {Expense})
    \/ DeleteCategory

SpecLedger == Init /\ [][NextLedger]_vars

Owned(account_id) == {t \in transactions : t.account_id = account_id}

\* C1: for every account, the balance get_account_current_balance returns is
\* the stored initial balance plus the exact sum of the amounts of the account's
\* transactions, quantized to 2 decimals.
C1_BalanceIsInitialPlusSum ==
    \A a \in accounts :
        CurrentBalance(a.id, FALSE) = Quantize(DecAdd(a.initial_balance, SumOf(Owned(a.id))))

-----------------------------------------------------------------------------
(* Deletes that reach other tables: of accounts with transactions, and of  *)
(* categories that transactions name.                                      *)

OneMonth == {<<"2","0","2","4","-","0","1">>}

\* 5.00
OneBudget == {Dec(5000, 2)}

\* -1.005
OneExpense == {Dec(-1005, 3)}

\* accounts, their transactions and a budget, and accounts deleted
NextAccountDelete ==
    \/ AddAccount(TwoNames, Balances)
    \/ DeleteAccount
    \/ AddTransaction(OneExpense, {c.id : c \in categories})
    \/ SetBudget(OneMonth, OneBudget)

SpecAccountDelete == Init /\ [][NextAccountDelete]_vars

\* accounts, transactions entered with a category, and categories deleted
NextCategoryDelete ==
    \/ AddAccount(TwoNames, Balances)
    \/ AddTransaction(SmallAmounts, {c.id : c \in categories})
    \/ AddCategory({<<"F">>}, {Expense})
    \/ DeleteCategory

SpecCategoryDelete == Init /\ [][NextCategoryDelete]_vars

\* C5: a delete_account(id) that succeeds removes the account id and the
\* transactions it owns, and leaves the other accounts, the transactions of
\* the other accounts, the categories and the budgets as they were.
C5_DeleteAccountCascades ==
    [][(last'.op = "delete_account" /\ last'.cause = "ok") =>
         \A id \in AccountIds :
             delete_account(id, FALSE) =>
                 /\ accounts' = {a \in accounts : a.id # id}
                 /\ transactions' = {t \in transactions : t.account_id # id}
                 /\ categories' = categories
                 /\ budgets' = budgets]_vars

\* C5: the only delete_account so far is the latest call; it took a transaction
\* with it and left an account, a transaction and a budget
C5_DeletedWithTransactions ==
    /\ last.op = "delete_account"
    /\ last.cause = "ok"
    /\ Cardinality(accounts) = 1
    /\ seq["accounts"] = 2
    /\ transactions # {}
    /\ Cardinality(transactions) < seq["transactions"]
    /\ budgets # {}

\* C6: a delete_category(id) that succeeds deletes no transaction; the
\* transactions that named the category keep account, date, description and
\* amount and name no category, the others are untouched, and every account's
\* current balance is what it was.
C6_DeleteCategoryKeepsTransactions ==
    [][(last'.op = "delete_category" /\ last'.cause = "ok") =>
         \A id \in CategoryIds :
             delete_category(id, FALSE) =>
                 /\ transactions' =
                        {IF t.category_id = id THEN [t EXCEPT !.category_id = NoCategory] ELSE t
                            : t \in transactions}
                 /\ Cardinality(transactions') = Cardinality(transactions)
                 /\ accounts' = accounts
                 /\ \A a \in accounts :
                        BalanceIn(File', a.id, FALSE) = BalanceIn(File, a.id, FALSE)]_vars

\* C6: the only delete_category so far is the latest call; every transaction
\* entered is still there, and one of them, entered with the category, names none
C6_CategoryOfTransactionDeleted ==
    /\ last.op = "delete_category"
    /\ last.cause = "ok"
    /\ seq["categories"] = 2
    /\ Cardinality(transactions) = seq["transactions"]
    /\ \E t \in transactions : t.category_id = NoCategory

-----------------------------------------------------------------------------
(* A file of an earlier version, with REAL monetary columns, and the start *)
(* of the program on it.                                                   *)

\* the file with the monetary columns of the tables in real declared REAL: one
\* account (100.50), one transaction of it (-25.50), one budget (50.00)
LegacyFile(real) ==
    LET Type(t) == IF t \in real THEN "REAL" ELSE "TEXT"
        Jan == <<"2","0","2","4","-","0","1">>
    IN  [accounts |-> {[id |-> 1, name |-> <<"A">>,
                        initial_balance |-> Stored(Dec(100500, 2), Type("accounts"))]},
         categories |-> Seeded,
         transactions |-> {[id |-> 1, account_id |-> 1, date |-> Jan \o <<"-","0","5">>,
                            description |-> <<"x">>,
                            amount |-> Stored(Dec(-25500, 2), Type("transactions")),
                            category_id |-> 1]},
         budgets |-> {[id |-> 1, category_id |-> 1, month |-> Jan,
                       amount |-> Stored(Dec(50000, 2), Type("budgets"))]},
         settings |-> {[key |-> Theme, value |-> Light]},
         schema |-> [t \in Tables |-> Documented(Type(t))],
         temp |-> NoTemp,
         seq |-> [t \in Tables |-> IF t = "settings" THEN 0 ELSE 1]]

\* no call yet: the program has not started on the file
NoCall == [op |-> "", id |-> 0, cause |-> "ok", ret |-> RetNone]

InitLegacy ==
    /\ \E real \in SUBSET MoneyTables : real # {} /\ IsFile(LegacyFile(real))
    /\ last = NoCall

\* the __main__ block: initialize_db runs first, and the program exits when it
\* raises
Running == last.op # "" /\ last.ret # RetRaise

Startup == \E fault \in InitFaults : initialize_db(fault)

NextLegacy ==
    \/ Startup
    \/ Running /\ AddAccount({<<" ", "a">>}, Balances)
    \/ Running /\ DeleteAccount

SpecLegacy == InitLegacy /\ [][NextLegacy]_vars

\* C7: an initialize_db whose migration fails at creating the temporary table,
\* copying the rows, dropping the old table, renaming or recreating the indexes
\* leaves the tables, their rows and their column types as they were, and no
\* temporary table.
C7_FailedMigrationRollsBack ==
    [][\A fault \in InitFaults :
         (fault.step \in {"temp", "copy", "drop", "rename", "index"} /\ initialize_db(fault)) =>
             UNCHANGED <<accounts, categories, transactions, budgets, settings, schema, temp>>]_vars

-----------------------------------------------------------------------------
(* The program started again on the store it has been working on.          *)

SetSetting == \E value \in SettingValues : set_setting(Theme, value, FALSE)

Restart == initialize_db(NoFault)

NextRestart ==
    \/ Restart
    \/ SetSetting
    \/ AddCategory({<<"F">>}, {Expense})
    \/ DeleteCategory
    \/ AddAccount({<<"A">>}, Balances)
    \/ AddTransaction({Dec(3000, 2)}, {NoCategory})
    \/ SetBudget(OneMonth, OneBudget)

SpecRestart == Init /\ [][NextRestart]_vars

\* C8: initialize_db on a store that is already initialized leaves the rows of
\* accounts, categories, transactions, budgets and settings as they are (the
\* theme is not reset, no second 'Uncategorized' appears) and, with no REAL
\* column, rebuilds no table.
C8_InitializeIsIdempotent ==
    [][(last'.op = "initialize_db" /\ initialize_db(NoFault)) =>
         UNCHANGED <<accounts, categories, transactions, budgets, settings, schema, temp>>]_vars

\* C8: initialize_db has just run on a store with the theme set to dark, a
\* category added, an account, a transaction and a budget
C8_RestartedOnUsedStore ==
    /\ last.op = "initialize_db"
    /\ [key |-> Theme, value |-> Dark] \in settings
    /\ Cardinality(categories) > 1
    /\ accounts # {}
    /\ transactions # {}
    /\ budgets # {}

-----------------------------------------------------------------------------
(* The repository on a store that can fail: every write and every          *)
(* aggregation, with and without an sqlite3.Error in it.                   *)

\* 3.00
OneAmount == {Dec(3000, 2)}

Writes(fault) ==
    \/ \E name \in OneName, initial_balance \in Balances :
           add_account(name, initial_balance, fault)
    \/ \E account_id \in AccountIds, new_name \in OneName, new_initial_balance \in Balances :
           update_account(account_id, new_name, new_initial_balance, fault)
    \/ \E account_id \in AccountIds : delete_account(account_id, fault)
    \/ \E name \in {<<"F">>}, type \in {Expense} : add_category(name, type, fault)
    \/ \E category_id \in CategoryIds, new_name \in {<<"F">>}, new_type \in {Expense} :
           update_category(category_id, new_name, new_type, fault)
    \/ \E category_id \in CategoryIds : delete_category(category_id, fault)
    \/ \E category_id \in CategoryIds, month_str \in OneMonth, amount \in OneBudget :
           set_budget(category_id, month_str, amount, fault)
    \/ \E account_id \in AccountIds, date_str \in Dates, description \in Descriptions,
          amount \in OneAmount :
           add_transaction(account_id, date_str, description, amount, NoCategory, fault)
    \/ \E transaction_id \in TransactionIds, account_id \in AccountIds, date_str \in Dates,
          description \in Descriptions, amount \in OneAmount :
           update_transaction(transaction_id, account_id, date_str, description, amount,
                              NoCategory, fault)
    \/ \E transaction_id \in TransactionIds : delete_transaction(transaction_id, fault)
    \/ \E value \in {Dark} : set_setting(Theme, value, fault)

\* the aggregations; fault is an error in the function's first query, faulty
\* the accounts whose balance query fails
Aggregations(fault) ==
    \/ \E account_id \in AccountIds : get_account_current_balance(account_id, fault)
    \/ \E faulty \in SUBSET {a.id : a \in accounts} :
           get_all_accounts_with_balances(fault, faulty)
    \/ \E faulty \in SUBSET {a.id : a \in accounts} : get_total_net_balance(fault, faulty)
    \/ \E category_id \in CategoryIds, month_str \in OneMonth :
           get_spending_for_category_month(category_id, month_str, fault)
    \/ \E start_date \in Dates, end_date \in Dates :
           get_spending_by_category(start_date, end_date, fault)
    \/ \E month_str \in OneMonth : get_income_expense_summary_for_month(month_str, fault)

NextFaults ==
    \/ Writes(FALSE)
    \/ Writes(TRUE)
    \/ Aggregations(FALSE)
    \/ Aggregations(TRUE)

SpecFaults == Init /\ [][NextFaults]_vars

\* C9: a call that a business rule declines and a call of the same function
\* that meets a storage fault never report the same result value.
C9_DeclinedDiffersFromFault ==
    [][(last.op = last'.op /\ last.cause = "declined" /\ last'.cause = "fault") =>
           last.ret # last'.ret]_vars

AggregationNames ==
    {"get_account_current_balance", "get_all_accounts_with_balances",
     "get_total_net_balance", "get_spending_for_category_month",
     "get_spending_by_category", "get_income_expense_summary_for_month"}

\* C10: an aggregation that meets a storage fault returns a value and does not
\* raise (looked at on a store that holds an account, where the same call
\* without the fault returns a value).
C10_AggregationsDoNotRaise ==
    (last.op \in AggregationNames /\ last.cause = "fault" /\ accounts # {}) =>
        last.ret # RetRaise

-----------------------------------------------------------------------------
(* The total over the accounts.                                            *)

\* C11: get_total_net_balance returns the sum of get_account_current_balance
\* over the accounts that exist, quantized to 2 decimals; with no account that
\* is 0.00.
C11_TotalIsSumOfBalances ==
    LET ids == {a.id : a \in accounts}
        balances == [id \in ids |-> CurrentBalance(id, FALSE)]
    IN  TotalNetBalance(FALSE, {}) = RetDecimal(Quantize(SumBalances(balances, ids)))

-----------------------------------------------------------------------------
(* Transactions entered, changed and deleted, with category ids that may   *)
(* name no category.                                                       *)

\* the ids a caller can give for a category: not None
GivenCategoryIds == CategoryIds \ {NoCategory}

\* transactions are entered with -1.005 and changed to 3.00, for an account
\* that exists
NextTransactions ==
    \/ AddAccount(OneName, Balances)
    \/ AddCategory({<<"F">>}, {Expense})
    \/ DeleteCategory
    \/ AddTransaction(OneExpense, GivenCategoryIds)
    \/ \E transaction_id \in TransactionIds, a \in accounts, date_str \in Dates,
          description \in Descriptions, amount \in OneAmount,
          category_id \in GivenCategoryIds :
           update_transaction(transaction_id, a.id, date_str, description, amount,
                              category_id, FALSE)
    \/ DeleteTransaction

SpecTransactions == Init /\ [][NextTransactions]_vars

\* C12: add_transaction, and update_transaction of a transaction that exists,
\* called with an account that exists and a category id that no category has,
\* succeed: the row holds the given account and date, the stripped description,
\* the amount to 2 decimals, and no category.
C12_StaleCategoryIsCleared ==
    [][\A date_str \in Dates, description \in Descriptions, amount \in SmallAmounts,
          category_id \in GivenCategoryIds \ {c.id : c \in categories} :
           LET Written(id, account_id) ==
                   [id |-> id, account_id |-> account_id, date |-> date_str,
                    description |-> Strip(description), amount |-> Quantize(amount),
                    category_id |-> NoCategory]
           IN  /\ (last'.op = "add_transaction") =>
                      \A a \in {x \in accounts : x.id = last'.id} :
                          add_transaction(a.id, date_str, description, amount, category_id,
                                          FALSE) =>
                              /\ last'.ret.kind = "int"
                              /\ ~\E t \in transactions : t.id = last'.ret.val
                              /\ transactions' =
                                     transactions \cup {Written(last'.ret.val, a.id)}
               /\ (last'.op = "update_transaction") =>
                      \A t \in {x \in transactions : x.id = last'.id}, a \in accounts :
                          update_transaction(t.id, a.id, date_str, description, amount,
                                             category_id, FALSE) =>
                              /\ last'.ret = RetBool(TRUE)
                              /\ transactions' =
                                     (transactions \ {t}) \cup {Written(t.id, a.id)}]_vars

\* C12: no category was ever added or deleted, every call gave a category id,
\* and the transaction just updated has none: the id it was given was stale
C12_UpdatedWithStaleCategory ==
    /\ last.op = "update_transaction"
    /\ last.cause = "ok"
    /\ seq["categories"] = 1
    /\ \E t \in transactions : t.id = last.id /\ t.category_id = NoCategory

\* C13: delete_transaction with an id that no transaction has returns False and
\* leaves the rows of transactions as they were.
C13_DeleteMissingTransaction ==
    [][(last'.op = "delete_transaction") =>
         \A id \in {last'.id} \ {t.id : t \in transactions} :
             delete_transaction(id, FALSE) =>
                 /\ last'.ret = [kind |-> "bool", val |-> 0]
                 /\ transactions' = transactions
                 /\ Cardinality(transactions') = Cardinality(transactions)]_vars

\* C13: the latest call is a delete_transaction that found nothing, on a table
\* that holds a transaction
C13_NotFoundAmongTransactions ==
    /\ last.op = "delete_transaction"
    /\ last.cause = "declined"
    /\ transactions # {}
    /\ ~\E t \in transactions : t.id = last.id

-----------------------------------------------------------------------------
(* Budgets set for categories of either type, for months of any shape.     *)

\* '2024-01', '2024/01' and '2024-1'
ShapedMonths ==
    {<<"2","0","2","4","-","0","1">>, <<"2","0","2","4","/","0","1">>,
     <<"2","0","2","4","-","1">>}

NextBudgets ==
    \/ AddCategory({<<"F">>}, {Expense, Income})
    \/ DeleteCategory
    \/ SetBudget(ShapedMonths, TwoBudgets)

SpecBudgets == Init /\ [][NextBudgets]_vars

-----------------------------------------------------------------------------
(* Every write, with arguments that the checks of the code and the         *)
(* constraints of the schema refuse.                                       *)

\* 'F' and 'UNCATEGORIZED'
RefusedNames == {<<"F">>, <<"U","N","C","A","T","E","G","O","R","I","Z","E","D">>}

\* 'income' and 'x'
RefusedTypes == {Income, <<"x">>}

\* '2024-01' and '2024/01'
RefusedMonths == {<<"2","0","2","4","-","0","1">>, <<"2","0","2","4","/","0","1">>}

\* the ids that name no row, or the seeded category
RefusedIds == {0, 1}

\* the calls that fill the store, and every write with arguments that are
\* refused
NextValidation ==
    \/ AddAccount(TwoNames, Balances)
    \/ UpdateAccount(OneName, Balances)
    \/ \E account_id \in {0} : delete_account(account_id, FALSE)
    \/ AddCategory(RefusedNames, {Expense, <<"x">>})
    \/ UpdateCategory(RefusedNames, RefusedTypes)
    \/ \E category_id \in RefusedIds : delete_category(category_id, FALSE)
    \/ AddTransaction(OneAmount, {NoCategory})
    \/ \E transaction_id \in TransactionIds, account_id \in {0}, date_str \in Dates,
          description \in Descriptions, amount \in OneAmount :
           update_transaction(transaction_id, account_id, date_str, description, amount,
                              NoCategory, FALSE)
    \/ \E transaction_id \in {0} : delete_transaction(transaction_id, FALSE)
    \/ SetBudget(RefusedMonths, OneBudget)

SpecValidation == Init /\ [][NextValidation]_vars

\* C15: a write that is declined returns None or False and leaves the rows of
\* accounts, categories, transactions, budgets and settings as they were.
C15_DeclinedWritesChangeNothing ==
    [][(last'.cause = "declined") =>
         /\ last'.ret \in {RetNone, RetBool(FALSE)}
         /\ UNCHANGED <<accounts, categories, transactions, budgets, settings>>]_vars

\* C15: set_budget has just been declined on a store that holds an account, a
\* transaction, an added category and a budget
C15_DeclinedOnUsedStore ==
    /\ last.op = "set_budget"
    /\ last.cause = "declined"
    /\ accounts # {}
    /\ transactions # {}
    /\ budgets # {}
    /\ categories # Seeded

-----------------------------------------------------------------------------
(* Accounts added and renamed.                                             *)

\* 2.005 and 3.00
TwoBalances == Balances \cup OneAmount

NextAccounts ==
    \/ AddAccount(AccountNames, TwoBalances)
    \/ UpdateAccount(AccountNames, TwoBalances)

SpecAccounts == Init /\ [][NextAccounts]_vars

\* C16: no two accounts have names that are equal ignoring case; add_account
\* with a name an account has, ignoring case, returns None and creates nothing;
\* update_account to a name another account has, or of an id no account has,
\* returns False and changes nothing.
C16_AccountNamesDistinct ==
    [][/\ \A a, b \in accounts' : Lower(a.name) = Lower(b.name) => a = b
       /\ (last'.op = "add_account") =>
              \A name \in AccountNames, initial_balance \in TwoBalances :
                  (/\ add_account(name, initial_balance, FALSE)
                   /\ \E a \in accounts : Lower(a.name) = Lower(Strip(name))) =>
                      last'.ret = RetNone /\ accounts' = accounts
       /\ (last'.op = "update_account") =>
              \A new_name \in AccountNames, new_initial_balance \in TwoBalances :
                  (/\ update_account(last'.id, new_name, new_initial_balance, FALSE)
                   /\ \/ ~\E a \in accounts : a.id = last'.id
                      \/ \E a \in accounts :
                             a.id # last'.id /\ Lower(a.name) = Lower(Strip(new_name))) =>
                      last'.ret = RetBool(FALSE) /\ accounts' = accounts]_vars

\* C16: update_account of an account that exists has just returned False, next
\* to the account that holds the name
C16_RenameToTakenName ==
    /\ last.op = "update_account"
    /\ last.ret = RetBool(FALSE)
    /\ Cardinality(accounts) = 2
    /\ \E a \in accounts : a.id = last.id

-----------------------------------------------------------------------------
(* Categories added and changed, with any name and any type.               *)

\* 'F', 'f ', 'G' and 'UNCATEGORIZED'
GivenNames == CategoryNames \cup {<<"G">>}

\* 'expense', 'income', 'x' and ' INCOME'
GivenTypes == Types \cup {<<" ", "I", "N", "C", "O", "M", "E">>}

NextCategoryNames ==
    \/ AddCategory(GivenNames, GivenTypes)
    \/ UpdateCategory(GivenNames, GivenTypes)

SpecCategoryNames == Init /\ [][NextCategoryNames]_vars

\* C17: category names are pairwise distinct ignoring case and every type is
\* 'expense' or 'income'; add_category with a name a category has, ignoring
\* case ('Uncategorized' included), returns None and adds nothing;
\* update_category with a type that is neither, with the name 'Uncategorized',
\* with a name another category has, or with an id no category has, returns
\* False and changes nothing.
C17_CategoryNamesDistinct ==
    [][/\ \A a, b \in categories' : Lower(a.name) = Lower(b.name) => a = b
       /\ \A c \in categories' : c.type \in {Expense, Income}
       /\ (last'.op = "add_category") =>
              \A name \in GivenNames, type \in GivenTypes :
                  (/\ add_category(name, type, FALSE)
                   /\ \E c \in categories : Lower(c.name) = Lower(Strip(name))) =>
                      last'.ret = RetNone /\ categories' = categories
       /\ (last'.op = "update_category") =>
              \A new_name \in GivenNames, new_type \in GivenTypes :
                  (/\ update_category(last'.id, new_name, new_type, FALSE)
                   /\ \/ Lower(Strip(new_type)) \notin {Expense, Income}
                      \/ Lower(Strip(new_name)) = uncategorized
                      \/ ~\E c \in categories : c.id = last'.id
                      \/ \E c \in categories :
                             c.id # last'.id /\ Lower(c.name) = Lower(Strip(new_name))) =>
                      last'.ret = RetBool(FALSE) /\ categories' = categories]_vars

\* C17: two categories were added, and update_category of one of them has just
\* returned False
C17_ChangeRefused ==
    /\ last.op = "update_category"
    /\ last.ret = RetBool(FALSE)
    /\ Cardinality(categories) = 3
    /\ \E c \in categories \ Seeded : c.id = last.id

-----------------------------------------------------------------------------
(* The reports over the transactions of two months.                        *)

\* 2024-01-05 and 2024-02-01
ReportDates ==
    {<<"2","0","2","4","-","0","1","-","0","5">>, <<"2","0","2","4","-","0","2","-","0","1">>}

\* -10000000000000.00, -0.01 and 3.00
ReportAmounts == {Big(-1, 0, 2), Dec(-10, 2), Dec(3000, 2)}

NextReports ==
    \/ AddAccount(OneName, Balances)
    \/ AddCategory({<<"F">>}, {Expense})
    \/ DeleteCategory
    \/ \E a \in accounts, date_str \in ReportDates, description \in Descriptions,
          amount \in ReportAmounts, category_id \in CategoryIds :
           add_transaction(a.id, date_str, description, amount, category_id, FALSE)
    \/ DeleteTransaction

SpecReports == Init /\ [][NextReports]_vars

\* the transactions dated in the month: the date is the month, '-' and a day
InMonth(month_str) ==
    {t \in transactions : Len(t.date) = 10 /\ SubSeq(t.date, 1, 8) = month_str \o <<"-">>}

\* C18: for every category and month, get_spending_for_category_month is the
\* absolute value of the exact sum of the negative amounts of the category's
\* transactions of the month, to 2 decimals, and 0.00 when there is none.
C18_SpendingIsSumOfExpenses ==
    \A c \in categories, m \in TwoMonths :
        SpendingForCategoryMonth(c.id, m, FALSE) =
            Quantize(DecAbs(SumOf({t \in InMonth(m) :
                                      t.category_id = c.id /\ IsNegative(t.amount)})))

\* C19: for every month, get_income_expense_summary_for_month gives the exact
\* sum of the positive amounts of the month as total_income and the absolute
\* value of the exact sum of its negative amounts as total_expense, each to 2
\* decimals and 0.00 without such a transaction.
C19_SummaryIsSumOfMonth ==
    \A m \in TwoMonths :
        IncomeExpenseSummary(m, FALSE) =
            [total_income |-> Quantize(SumOf({t \in InMonth(m) : IsPositive(t.amount)})),
             total_expense |->
                 Quantize(DecAbs(SumOf({t \in InMonth(m) : IsNegative(t.amount)})))]

\* C20: for every range of dates, get_spending_by_category has one entry for
\* each display name of a negative transaction dated in the range ('Uncategorized'
\* for one without category), no other entry, each with the negated exact sum
\* of these amounts, which is positive, and the entries come with no smaller
\* amount first.
C20_SpendingByCategoryIsGrouped ==
    \A start_date \in ReportDates, end_date \in ReportDates :
        TextLeq(start_date, end_date) =>
            LET rows == {t \in transactions :
                            /\ IsNegative(t.amount)
                            /\ TextLeq(start_date, t.date)
                            /\ TextLeq(t.date, end_date)}
                names == {CategoryName(t) : t \in rows}
                Spent(n) == Quantize(DecAbs(SumOf({t \in rows : CategoryName(t) = n})))
            IN  \A list \in Ordered(SpendingGroups(start_date, end_date)) :
                    /\ {list[i].category_name : i \in DOMAIN list} = names
                    /\ Len(list) = Cardinality(names)
                    /\ \A i \in DOMAIN list :
                           /\ list[i].spent_amount = Spent(list[i].category_name)
                           /\ IsPositive(list[i].spent_amount)
                    /\ \A i, j \in DOMAIN list :
                           i < j => DecLeq(list[j].spent_amount, list[i].spent_amount)

-----------------------------------------------------------------------------
(* Settings written and read, under several keys.                          *)

\* 'theme', 'k' and 'j'
SettingKeys == {Theme, <<"k">>, <<"j">>}

\* 'light', 'dark' and ''
GivenValues == SettingValues \cup {<<>>}

NextSettings ==
    \/ \E key \in SettingKeys, value \in GivenValues : set_setting(key, value, FALSE)
    \/ \E key \in SettingKeys, default \in GivenValues : get_setting(key, default, FALSE)

SpecSettings == Init /\ [][NextSettings]_vars

\* C21: settings never holds two rows of one key; get_setting of a key without
\* a row returns the default; after a set_setting(k, v) that succeeds,
\* get_setting(k, d) returns v for every d, and get_setting of every other key
\* returns what it returned before; a call that is no set_setting changes no
\* value.
C21_SettingsAreAMap ==
    [][/\ \A r1, r2 \in settings' : r1.key = r2.key => r1 = r2
       /\ \A k \in SettingKeys, d \in GivenValues :
              (~\E r \in settings' : r.key = k) => GetSetting(k, d, FALSE)' = d
       /\ \A k \in SettingKeys, v \in GivenValues :
              set_setting(k, v, FALSE) =>
                  \A d \in GivenValues :
                      /\ GetSetting(k, d, FALSE)' = v
                      /\ \A other \in SettingKeys \ {k} :
                             GetSetting(other, d, FALSE)' = GetSetting(other, d, FALSE)
       /\ (last'.op # "set_setting") =>
              \A k \in SettingKeys, d \in GivenValues :
                  GetSetting(k, d, FALSE)' = GetSetting(k, d, FALSE)]_vars

\* C21: every key is set, so no default is returned, and get_setting has just
\* returned the value written for 'theme', which is neither the seeded value
\* nor the value of another key
C21_ReadWhatWasWritten ==
    /\ last.op = "get_setting"
    /\ last.ret.val = Dark
    /\ [key |-> Theme, value |-> Dark] \in settings
    /\ [key |-> <<"k">>, value |-> Light] \in settings
    /\ [key |-> <<"j">>, value |-> Light] \in settings

-----------------------------------------------------------------------------
(* The amounts a migrated store holds.                                     *)

\* C22: once initialize_db has returned on a store whose transactions table it
\* has migrated from a REAL amount column (the column is TEXT now), every
\* stored transaction amount is written with exactly 2 fraction digits.
C22_MigratedAmountsHaveTwoPlaces ==
    (Running /\ schema["transactions"] = Rebuilt) =>
        \A t \in transactions : t.amount.p = 2

-----------------------------------------------------------------------------
(* Monetary text from the user interface to the file and back.  The texts  *)
(* are written with digits, a sign, '.', ',' and blanks, have at most      *)
(* three fraction digits and stay below ten trillion.                      *)

Digits == <<"0", "1", "2", "3", "4", "5", "6", "7", "8", "9">>

IsDigit(c) == c \in Range(Digits)

DigitValue(c) == (CHOOSE i \in 1..Len(Digits) : Digits[i] = c) - 1

Pow10(n) == CASE n = 0 -> 1 [] n = 1 -> 10 [] n = 2 -> 100 [] n = 3 -> 1000

\* the number a text of digits denotes; 0 for no digit
RECURSIVE Number(_)
Number(s) ==
    IF s = <<>> THEN 0
    ELSE 10 * Number(SubSeq(s, 1, Len(s) - 1)) + DigitValue(s[Len(s)])

\* the digits of n
RECURSIVE NumberText(_)
NumberText(n) ==
    IF n < 10 THEN <<Digits[n + 1]>>
    ELSE NumberText(n \div 10) \o <<Digits[(n % 10) + 1]>>

\* the last width digits of n, zeros included
RECURSIVE Padded(_, _)
Padded(n, width) ==
    IF width = 0 THEN <<>>
    ELSE Padded(n \div 10, width - 1) \o <<Digits[(n % 10) + 1]>>

\* str.replace(old, new) for one character
Replace(s, old, new) == [i \in 1..Len(s) |-> IF s[i] = old THEN new ELSE s[i]]

\* the parts of a numeric text: its sign, what follows the sign, and there the
\* digits before and after the first point
Unsigned(s) == IF s # <<>> /\ s[1] \in {"+", "-"} THEN Tail(s) ELSE s

PointAt(s) ==
    IF "." \in Range(s)
    THEN CHOOSE i \in 1..Len(s) : s[i] = "." /\ \A j \in 1..(i - 1) : s[j] # "."
    ELSE Len(s) + 1

Whole(s) == SubSeq(Unsigned(s), 1, PointAt(Unsigned(s)) - 1)

Fraction(s) == SubSeq(Unsigned(s), PointAt(Unsigned(s)) + 1, Len(Unsigned(s)))

\* Decimal(s) does not raise InvalidOperation: an optional sign, digits with at
\* most one point among them, and at least one digit
IsDecimalText(s) ==
    /\ \A c \in Range(Whole(s)) \cup Range(Fraction(s)) : IsDigit(c)
    /\ Whole(s) \o Fraction(s) # <<>>

\* Decimal(s): the exponent is the number of fraction digits written
DecimalOf(s) ==
    LET sign == IF s[1] = "-" THEN -1 ELSE 1
        p == Len(Fraction(s))
    IN  Dec(sign * (1000 * Number(Whole(s)) + Number(Fraction(s)) * Pow10(3 - p)), p)

\* adapt_decimal: str(d) of a Decimal below ten trillion
adapt_decimal(d) ==
    LET whole == Abs(d.m) \div 1000
        fraction == (Abs(d.m) % 1000) \div Pow10(3 - d.p)
    IN  (IF d.m < 0 THEN <<"-">> ELSE <<>>)
        \o NumberText(whole)
        \o (IF d.p = 0 THEN <<>> ELSE <<".">> \o Padded(fraction, d.p))

\* convert_decimal: the empty text and a text Decimal() refuses give 0.00
convert_decimal(s) ==
    IF s = <<>> THEN Zero
    ELSE IF IsDecimalText(s) THEN DecimalOf(s)
    ELSE Zero

\* a monetary column selected as "column [DECIMAL]": the text adapt_decimal
\* wrote for the Decimal of the row, through convert_decimal
AsRead(d) == convert_decimal(adapt_decimal(d))

_parse_decimal_from_str_keeping_commas(value_str, default) ==
    LET cleaned_str == Strip(value_str)
    IN  IF cleaned_str = <<>> THEN default
        ELSE IF IsDecimalText(cleaned_str) THEN DecimalOf(cleaned_str)
        ELSE default

\* main.py's _parse_decimal_from_str; a value_str of None is given as the
\* empty text, which has the same result
_parse_decimal_from_str(value_str, default) ==
    LET cleaned_str == Strip(value_str)
        pointed == Replace(cleaned_str, ",", ".")
    IN  IF cleaned_str = <<>> THEN default
        ELSE IF IsDecimalText(pointed) THEN DecimalOf(pointed)
        ELSE default

MAX_NAME_LENGTH == 100

MAX_DESC_LENGTH == 255

\* the reply of an Api method that returns before it calls the repository
Refused(op) == RolledBack(op, 0, "declined", RetBool(FALSE))

\* Api.add_account: the repository is called with the stripped name and the
\* parsed balance, and the response reports whether it returned an id
Api_add_account(name, initial_balance_str) ==
    IF Strip(name) = <<>> \/ Len(Strip(name)) > MAX_NAME_LENGTH
    THEN Refused("Api.add_account")
    ELSE add_account(Strip(name), _parse_decimal_from_str(initial_balance_str, Zero), FALSE)

\* int(s) does not raise ValueError
IsIntText(s) == s # <<>> /\ \A c \in Range(s) : IsDigit(c)

\* the texts between the '-' of s
RECURSIVE Fields(_)
Fields(s) ==
    IF "-" \notin Range(s) THEN <<s>>
    ELSE LET i == CHOOSE i \in 1..Len(s) : s[i] = "-" /\ \A j \in 1..(i - 1) : s[j] # "-"
         IN  <<SubSeq(s, 1, i - 1)>> \o Fields(SubSeq(s, i + 1, Len(s)))

LeapYear(y) == y % 4 = 0 /\ (y % 100 # 0 \/ y % 400 = 0)

DaysIn(y, m) ==
    IF m = 2 THEN (IF LeapYear(y) THEN 29 ELSE 28)
    ELSE IF m \in {4, 6, 9, 11} THEN 30
    ELSE 31

\* datetime.datetime.strptime(s, '%Y-%m-%d') does not raise ValueError: four
\* digits, one or two digits of a month, one or two digits of a day of it
IsDate(s) ==
    LET f == Fields(s)
    IN  /\ Len(f) = 3
        /\ Len(f[1]) = 4 /\ IsIntText(f[1]) /\ Number(f[1]) >= 1
        /\ Len(f[2]) \in 1..2 /\ IsIntText(f[2]) /\ Number(f[2]) \in 1..12
        /\ Len(f[3]) \in 1..2 /\ IsIntText(f[3])
        /\ Number(f[3]) \in 1..DaysIn(Number(f[1]), Number(f[2]))

\* Api.add_transaction; a category_id_str of None is given as the empty text,
\* which is as false.  The get_accounts after a failed call only chooses the
\* message.
Api_add_transaction(account_id_str, date_str, description, amount_str, category_id_str) ==
    LET amount == _parse_decimal_from_str(amount_str, Zero)
        category_id == IF /\ category_id_str # <<>>
                          /\ category_id_str # <<"n", "u", "l", "l">>
                          /\ IsIntText(category_id_str)
                       THEN Number(category_id_str) ELSE NoCategory
    IN  IF \/ ~IsIntText(account_id_str)
           \/ Strip(description) = <<>>
           \/ Len(Strip(description)) > MAX_DESC_LENGTH
           \/ ~IsDate(Strip(date_str))
        THEN Refused("Api.add_transaction")
        ELSE add_transaction(Number(account_id_str), Strip(date_str), Strip(description),
                             amount, category_id, FALSE)

\* get_accounts: the rows, the balance through the DECIMAL converter
get_accounts(fault) ==
    /\ Reply("get_accounts", 0, IF fault THEN "fault" ELSE "ok",
             [kind |-> "list",
              val |-> {[a EXCEPT !.initial_balance = AsRead(@)] : a \in GetAccounts(fault)}])
    /\ UNCHANGED store

\* get_transaction_by_id: the row with the amount through the DECIMAL
\* converter, None when there is none or the query fails
get_transaction_by_id(transaction_id, fault) ==
    LET found == IF fault \/ ~schema["transactions"].exists THEN {}
                 ELSE {t \in transactions : t.id = transaction_id}
    IN  /\ Reply("get_transaction_by_id", transaction_id, IF fault THEN "fault" ELSE "ok",
                 [kind |-> "list", val |-> {[t EXCEPT !.amount = AsRead(@)] : t \in found}])
        /\ UNCHANGED store

\* what the user types: a sign, the digits before the separator with the
\* number n they denote, the separator, and the digits after it with the
\* thousandths m they denote
Signs == {[text |-> <<>>, sign |-> 1], [text |-> <<"-">>, sign |-> -1]}

Wholes == {[text |-> <<>>, n |-> 0], [text |-> <<"2">>, n |-> 2]}

Separators == {<<".">>, <<",">>}

Fractions ==
    {[text |-> <<>>, m |-> 0], [text |-> <<"5">>, m |-> 500],
     [text |-> <<"0", "0", "5">>, m |-> 5], [text |-> <<"0", "0", "4">>, m |-> 4]}

Typed ==
    {in \in [sign : Signs, whole : Wholes, sep : Separators, frac : Fractions] :
        in.whole.text \o in.frac.text # <<>>}

TextOf(in) == <<" ">> \o in.sign.text \o in.whole.text \o in.sep \o in.frac.text

ValueOf(in) == Dec(in.sign.sign * (1000 * in.whole.n + in.frac.m), Len(in.frac.text))

\* texts that are no amount: nothing, a letter, two separators
NoAmounts == {<<>>, <<"x">>, <<"1", ",", "2", ".", "5">>}

MoneyTexts == {TextOf(in) : in \in Typed} \cup NoAmounts

\* the amounts typed for a transaction: negative, with a comma
Spent == {in \in Typed : in.sign.sign = -1 /\ in.whole.n = 2 /\ in.sep = <<",">>}

SpentTexts == {TextOf(in) : in \in Spent}

TypedIds == {<<"1">>, <<"x">>}

TypedDates == {<<"2","0","2","4","-","0","2","-","2","9">>, <<"2","0","2","3","-","0","2","-","2","9">>}

TypedCategories == {<<"1">>}

\* the value get_accounts returns for an account is stored as another account
\* the names typed: nothing but a blank, and a name
TypedNames == {<<" ">>, <<" ", "A">>}

Copy == {<<"C">>}

StoreAgain ==
    \E a \in accounts, name \in Copy :
        add_account(name, AsRead(a.initial_balance), FALSE)

NextMoney ==
    \/ \E name \in TypedNames, initial_balance_str \in MoneyTexts :
           Api_add_account(name, initial_balance_str)
    \/ \E account_id_str \in TypedIds, date_str \in TypedDates, amount_str \in SpentTexts,
          category_id_str \in TypedCategories :
           Api_add_transaction(account_id_str, date_str, <<"x">>, amount_str, category_id_str)
    \/ StoreAgain
    \/ get_accounts(FALSE)
    \/ \E transaction_id \in TransactionIds : get_transaction_by_id(transaction_id, FALSE)

SpecMoney == Init /\ [][NextMoney]_vars

\* C23: an amount typed with '.' or ',' and stored by Api.add_account or
\* Api.add_transaction is read back as its value quantized to 2 fraction
\* digits, half-up; the value read back, stored again, is written with the
\* same text.
C23_TypedAmountIsReadBackQuantized ==
    [][/\ (last'.op = "add_account" /\ last'.cause = "ok") =>
              LET row == CHOOSE a \in accounts' : a.id = last'.ret.val
              IN  /\ \A name \in TypedNames, in \in Typed :
                         Api_add_account(name, TextOf(in)) =>
                             AsRead(row.initial_balance) = Quantize(ValueOf(in))
                  /\ \A a \in accounts, name \in Copy :
                         add_account(name, AsRead(a.initial_balance), FALSE) =>
                             adapt_decimal(row.initial_balance) = adapt_decimal(a.initial_balance)
       /\ (last'.op = "add_transaction" /\ last'.cause = "ok") =>
              LET row == CHOOSE t \in transactions' : t.id = last'.ret.val
              IN  \A account_id_str \in TypedIds, date_str \in TypedDates, in \in Spent,
                     category_id_str \in TypedCategories :
                         Api_add_transaction(account_id_str, date_str, <<"x">>, TextOf(in),
                                             category_id_str) =>
                             AsRead(row.amount) = Quantize(ValueOf(in))
       /\ (last'.op = "get_accounts") =>
              /\ {r.id : r \in last'.ret.val} = {a.id : a \in accounts}
              /\ \A r \in last'.ret.val :
                     /\ r.initial_balance.p = 2
                     /\ Quantize(r.initial_balance) = r.initial_balance]_vars

\* C23: '-2,005' was typed for a transaction and is stored as -2.01, the first
\* account holds 2.01 from ' 2.005' or ' 2,005', and the value read back for it
\* has just been stored as the second account
C23_TypedWithCommaAndStoredAgain ==
    /\ last.op = "add_account"
    /\ last.ret = RetInt(2)
    /\ \E a \in accounts : a.id = 2 /\ a.name = <<"C">>
    /\ \A a \in accounts : adapt_decimal(a.initial_balance) = <<"2", ".", "0", "1">>
    /\ \E t \in transactions : adapt_decimal(t.amount) = <<"-", "2", ".", "0", "1">>

-----------------------------------------------------------------------------
(* The start of the program on a store that fails.                         *)

\* C24: an initialize_db that meets a storage error, at creating a table, at
\* seeding, at a statement of the migration of a REAL column or at the commit,
\* raises, so that the program exits before Api and the window exist; and a
\* repository call is served only on a store initialize_db has completed:
\* every table there, the monetary columns TEXT, no temporary table left.
C24_StorageErrorStopsStartup ==
    [][/\ \A fault \in InitFaults \ {NoFault} :
              (last'.op = "initialize_db" /\ initialize_db(fault)) => last'.ret = RetRaise
       /\ (last'.op \notin {"", "initialize_db"}) =>
              /\ \A t \in Tables : schema'[t].exists /\ schema'[t].money = "TEXT"
              /\ \A t \in MoneyTables : ~temp'[t].exists]_vars

-----------------------------------------------------------------------------
(* The writes of the repository on a store that fails.                     *)

WriteNames ==
    {"add_account", "update_account", "delete_account", "add_category", "update_category",
     "delete_category", "set_budget", "add_transaction", "update_transaction",
     "delete_transaction", "set_setting"}

\* C25: a write of the repository that meets an sqlite3.Error returns None or
\* False and leaves the store as it was: the rows of every table, the tables
\* and the ids given out.
C25_FailedWriteChangesNothing ==
    [][(last'.op \in WriteNames /\ last'.cause = "fault") =>
         /\ last'.ret \in {RetNone, [kind |-> "bool", val |-> 0]}
         /\ UNCHANGED store]_vars

\* C25: delete_account has just failed for an account that has a transaction,
\* on a store with an added category and a budget; the rows are still there
C25_FailedDeleteOnUsedStore ==
    /\ last.op = "delete_account"
    /\ last.cause = "fault"
    /\ \E t \in transactions : t.account_id = last.id
    /\ \E a \in accounts : a.id = last.id
    /\ categories # Seeded
    /\ budgets # {}

\* the store is filled by writes that meet no error, and every write is tried
\* with an error in it
NextWrites ==
    \/ AddAccount(OneName, Balances)
    \/ AddCategory({<<"F">>}, {Expense})
    \/ AddTransaction(OneAmount, GivenCategoryIds)
    \/ SetBudget(OneMonth, OneBudget)
    \/ Writes(TRUE)

SpecWrites == Init /\ [][NextWrites]_vars

-----------------------------------------------------------------------------
(* The references between the rows of a store initialize_db has created.   *)

\* the categories given for a transaction and for a budget: none, and the
\* first one added
NoneOrAdded == {NoCategory, 2}

NextReferences ==
    \/ AddAccount(OneName, OneAmount)
    \/ DeleteAccount
    \/ AddCategory({<<"F">>}, {Expense})
    \/ DeleteCategory
    \/ AddTransaction(OneAmount, NoneOrAdded)
    \/ UpdateTransaction(OneAmount, {NoCategory})
    \/ \E category_id \in NoneOrAdded, month_str \in OneMonth, amount \in OneBudget :
           set_budget(category_id, month_str, amount, FALSE)

SpecReferences == Init /\ [][NextReferences]_vars

\* C26: on a store initialize_db has created, the account of every transaction
\* exists, its category is none or exists, and the category of every budget
\* exists; add_transaction and update_transaction for an account that does not
\* exist return None and False and write nothing; delete_category leaves no
\* budget of the category.
C26_ReferencesHold ==
    [][/\ \A t \in transactions' :
              /\ \E a \in accounts' : a.id = t.account_id
              /\ t.category_id = NoCategory \/ \E c \in categories' : c.id = t.category_id
       /\ \A b \in budgets' : \E c \in categories' : c.id = b.category_id
       /\ (last'.op = "add_transaction" /\ ~\E a \in accounts : a.id = last'.id) =>
              last'.ret = RetNone /\ UNCHANGED store
       /\ (last'.op = "update_transaction") =>
              \A account_id \in AccountIds \ {a.id : a \in accounts},
                 date_str \in Dates, description \in Descriptions, amount \in OneAmount,
                 category_id \in {NoCategory} :
                  update_transaction(last'.id, account_id, date_str, description, amount,
                                     category_id, FALSE) =>
                      last'.ret = [kind |-> "bool", val |-> 0] /\ UNCHANGED store
       /\ (last'.op = "delete_category" /\ last'.cause = "ok") =>
              \A b \in budgets' : b.category_id # last'.id]_vars

\* C26: update_transaction for a transaction that exists and an account that
\* does not has just been declined, on a store with a budget
C26_MissingAccountDeclined ==
    /\ last.op = "update_transaction"
    /\ last.cause = "declined"
    /\ \E t \in transactions : t.id = last.id
    /\ Cardinality(accounts) = 1
    /\ budgets # {}

-----------------------------------------------------------------------------
(* The tables a migration has rebuilt.                                     *)

\* C27: initialize_db on a store with REAL monetary columns leaves every table
\* with the rows it had; and on the store it leaves, delete_account removes
\* the transactions of the account and no two accounts have the same name in
\* any letter case.
C27_RebuiltTablesKeepRowsAndConstraints ==
    [][/\ (last'.op = "initialize_db" /\ initialize_db(NoFault)) =>
              UNCHANGED <<accounts, categories, transactions, budgets, settings>>
       /\ (last'.op = "delete_account" /\ last'.cause = "ok") =>
              \A t \in transactions' : t.account_id # last'.id
       /\ \A a1, a2 \in accounts' : NoCaseEq(a1.name, a2.name) => a1 = a2]_vars

-----------------------------------------------------------------------------
(* A transaction moved from one account to another.                        *)

\* C28: an update_transaction that changes nothing of a transaction but its
\* account, from A to B, lowers the balance of A by the amount, raises the
\* balance of B by it, and leaves the balance of every other account and
\* get_total_net_balance as they were.
C28_MoveShiftsTheAmount ==
    [][(last'.op = "update_transaction" /\ last'.cause = "ok") =>
         \A old \in transactions, new \in transactions' :
             (/\ old.id = last'.id
              /\ new.id = last'.id
              /\ new.account_id # old.account_id
              /\ new = [old EXCEPT !.account_id = new.account_id]) =>
                 LET A == old.account_id
                     B == new.account_id
                     ids == {a.id : a \in accounts}
                     before == [id \in ids |-> BalanceIn(File, id, FALSE)]
                     after == [id \in ids |-> BalanceIn(File', id, FALSE)]
                 IN  /\ DecAdd(after[A], old.amount) = before[A]
                     /\ after[B] = DecAdd(before[B], old.amount)
                     /\ \A id \in ids \ {A, B} : after[id] = before[id]
                     /\ Quantize(SumBalances(after, ids)) = Quantize(SumBalances(before, ids))]_vars

====
